---- MODULE Spec2Model ----
(***************************************************************************)
(* Model of load_data.py, the loader of the global-inequality database.    *)
(*                                                                         *)
(* Randomness.  random.uniform(a, b) returns a + (b - a) * u for a draw u  *)
(* of the module-global generator.  A draw is modelled as a point u of the *)
(* grid 0 .. UGrid, standing for the fraction u / UGrid, both ends         *)
(* included.                                                               *)
(* Draws are independent: every call may give every point.  A generator    *)
(* is a function of the stream of its draws; the generators are checked    *)
(* over every combination of the draws of a record (SpecGen).  A run of    *)
(* main() makes thousands of draws, and nothing main() does depends on a   *)
(* drawn value: the pipeline (Spec) holds a frame by the call that built   *)
(* it, and its records are those of its loop for the draws of that call.   *)
(*                                                                         *)
(* Numbers.  The program computes in binary floating point and stores      *)
(* values rounded to two decimals.  The model computes with exact          *)
(* rationals: a sampled quantity is an integer count of 1/Unit, where      *)
(* Unit = 10 * UGrid, so that every a + (b - a) * u / UGrid with a and b   *)
(* multiples of 0.1 is exact; a stored quantity is an integer count of     *)
(* hundredths (38.25 is 3825).  round(x, 2) gives the hundredth nearest to *)
(* the double x.  Where the exact value lies midway between two hundredths *)
(* the double lies on one side or the other, which integer arithmetic      *)
(* cannot tell: there a rounding has both neighbours as possible outcomes, *)
(* and which one it takes is decided by `ups`, the set of operand tuples   *)
(* for which the double lies above the midpoint.                           *)
(***************************************************************************)
EXTENDS Integers, Sequences, FiniteSets

VARIABLES
  pc,         \* position of main() in its fixed sequence of steps
  conn,       \* the sqlite3 connection of the current run: "none", "open", "closed"
  closes,     \* number of conn.close() calls made in the current run
  escaped,    \* TRUE when an exception left main() in the current run
  interrupted,\* TRUE when an exception was raised in the finally clause of the run
  countries,  \* the DataFrame returned by load_country_metadata (NoFrame before)
  tables,     \* the database file: table name -> the frames stored in it, in order
  run,        \* number of runs of main() started so far
  before,     \* the database as it was when the current run started
  wrote,      \* per table: the frame this run's stage handed to to_sql (<<>> = none yet)
  ran,        \* the steps of the try block entered in the current run
  failedAt,   \* the step at which this run failed ("none" if it did not)
  raised,     \* what the failed step raised: "none", "Exception", "BaseException", "in except"
  streak,     \* number of successful runs in a row, up to the last finished run
  first_counts, \* row count of each table after the first run of that streak
  sample      \* generator harness: the last generated record block and its inputs

vars == <<pc, conn, closes, escaped, interrupted, countries, tables, run, before, wrote, ran,
          failedAt, raised, streak, first_counts, sample>>

(***************************************************************************)
(* Bounds of the model.                                                    *)
(***************************************************************************)
\* Number of grid steps of one random draw (draws are 0 .. UGrid).
UGrid == 6

\* Number of runs of main() against the same database file.
MaxRuns == 3

Draws == 0 .. UGrid

\* The number of model units in 1.0 of a sampled quantity.
Unit == 10 * UGrid

None == "None"

(***************************************************************************)
(* Arithmetic.                                                             *)
(***************************************************************************)
Min(a, b) == IF a <= b THEN a ELSE b

Max(a, b) == IF a >= b THEN a ELSE b

\* n / d rounded to the nearest integer (d > 0): the nearest one, or at an exact
\* half the lower neighbour with tie set; key names the operands of the rounding.
RoundDiv(n, d, key) ==
  LET q == n \div d
      r == n % d
  IN  [value |-> IF 2 * r > d THEN q + 1 ELSE q,
       tie   |-> 2 * r = d,
       key   |-> key]

\* The outcome of a rounding: at a tie the upper neighbour when the double lies
\* above the midpoint, the lower one when it lies below.
resolved(x, ups) == IF x.tie /\ x.key \in ups THEN x.value + 1 ELSE x.value

\* round(x, 2) of a quantity in 1/Unit, in hundredths.
round2(x) == RoundDiv(100 * x, Unit, <<x, 0, 0>>)

\* random.uniform(lo, hi) for the draw u: lo + (hi - lo) * u / UGrid.
\* lo and hi in tenths, the result in 1/Unit.
random_uniform(lo, hi, u) == lo * UGrid + (hi - lo) * u

\* Base of the limbs of a long integer.
LimbBase == 100000

\* An integer as a little-endian sequence of limbs.
RECURSIVE ToLimbs(_)
ToLimbs(n) ==
  IF n < LimbBase THEN <<n>> ELSE <<n % LimbBase>> \o ToLimbs(n \div LimbBase)

RECURSIVE FromLimbs(_)
FromLimbs(x) == IF x = <<>> THEN 0 ELSE Head(x) + LimbBase * FromLimbs(Tail(x))

\* limbs x times the small integer m, plus carry c.
RECURSIVE MulLimbs(_, _, _)
MulLimbs(x, m, c) ==
  IF x = <<>>
  THEN IF c = 0 THEN <<>> ELSE ToLimbs(c)
  ELSE LET p == Head(x) * m + c
       IN  <<p % LimbBase>> \o MulLimbs(Tail(x), m, p \div LimbBase)

\* limbs x times m^k.
RECURSIVE PowLimbs(_, _, _)
PowLimbs(x, m, k) == IF k = 0 THEN x ELSE PowLimbs(MulLimbs(x, m, 0), m, k - 1)

\* limbs x divided by the small integer d: quotient limbs q and remainder r.
RECURSIVE DivLimbs(_, _)
DivLimbs(x, d) ==
  IF x = <<>> THEN [q |-> <<>>, r |-> 0]
  ELSE LET hi  == DivLimbs(Tail(x), d)
           cur == hi.r * LimbBase + Head(x)
       IN  [q |-> <<cur \div d>> \o hi.q, r |-> cur % d]

\* limbs x divided by d1, then k times by d: the quotient, the remainder r of the
\* last division and whether an earlier division left a remainder (low).
RECURSIVE DivChain(_, _, _, _)
DivChain(x, d1, d, k) ==
  LET a == DivLimbs(x, d1)
  IN  IF k = 0 THEN [q |-> a.q, r |-> a.r, low |-> FALSE]
      ELSE LET rest == DivChain(a.q, d, d, k - 1)
           IN  [q |-> rest.q, r |-> rest.r, low |-> rest.low \/ a.r # 0]

\* round(base * (1 + growth/100) ** n, 2), in hundredths; base in 1/Unit dollars,
\* growth in 1/Unit percent.  1 + growth/100 is (100 * Unit + growth) / (100 * Unit),
\* so the value in hundredths is 100 * base * (100 * Unit + growth)^n divided by
\* Unit * (100 * Unit)^n; the last division is by the even number 100 * Unit.
compound_round2(base, growth, n) ==
  IF n = 0 THEN RoundDiv(100 * base, Unit, <<base, growth, n>>)
  ELSE LET num  == PowLimbs(ToLimbs(100 * base), 100 * Unit + growth, n)
           c    == DivChain(num, Unit, 100 * Unit, n)
           q    == FromLimbs(c.q)
           half == 50 * Unit
       IN  [value |-> IF c.r > half \/ (c.r = half /\ c.low) THEN q + 1 ELSE q,
            tie   |-> c.r = half /\ ~c.low,
            key   |-> <<base, growth, n>>]

(***************************************************************************)
(* The country catalog (load_country_metadata).                            *)
(***************************************************************************)
countries_country_code ==
  <<
    "USA", "GBR", "DEU", "FRA", "JPN", "CHN", "IND", "BRA", "ZAF", "NGA", "KEN", "ETH",
    "MEX", "ARG", "CHL", "POL", "CZE", "HUN", "RUS", "TUR", "IDN", "THA", "VNM", "PHL",
    "EGY", "MAR", "GHA", "TZA", "UGA", "RWA", "SWE", "NOR", "DNK", "FIN", "NLD", "BEL",
    "AUT", "CHE", "ITA", "ESP", "PRT", "GRC", "CAN", "AUS", "NZL", "KOR", "SGP", "MYS"
  >>

countries_country_name ==
  <<
    "United States", "United Kingdom", "Germany", "France", "Japan", "China", "India",
    "Brazil", "South Africa", "Nigeria", "Kenya", "Ethiopia", "Mexico", "Argentina",
    "Chile", "Poland", "Czech Republic", "Hungary", "Russia", "Turkey", "Indonesia",
    "Thailand", "Vietnam", "Philippines", "Egypt", "Morocco", "Ghana", "Tanzania",
    "Uganda", "Rwanda", "Sweden", "Norway", "Denmark", "Finland", "Netherlands",
    "Belgium", "Austria", "Switzerland", "Italy", "Spain", "Portugal", "Greece",
    "Canada", "Australia", "New Zealand", "South Korea", "Singapore", "Malaysia"
  >>

countries_region ==
  <<
    "North America", "Europe & Central Asia", "Europe & Central Asia",
    "Europe & Central Asia", "East Asia & Pacific", "East Asia & Pacific",
    "South Asia", "Latin America & Caribbean", "Sub-Saharan Africa",
    "Sub-Saharan Africa", "Sub-Saharan Africa", "Sub-Saharan Africa",
    "Latin America & Caribbean", "Latin America & Caribbean",
    "Latin America & Caribbean", "Europe & Central Asia", "Europe & Central Asia",
    "Europe & Central Asia", "Europe & Central Asia", "Europe & Central Asia",
    "East Asia & Pacific", "East Asia & Pacific", "East Asia & Pacific",
    "East Asia & Pacific", "Middle East & North Africa", "Middle East & North Africa",
    "Sub-Saharan Africa", "Sub-Saharan Africa", "Sub-Saharan Africa",
    "Sub-Saharan Africa", "Europe & Central Asia", "Europe & Central Asia",
    "Europe & Central Asia", "Europe & Central Asia", "Europe & Central Asia",
    "Europe & Central Asia", "Europe & Central Asia", "Europe & Central Asia",
    "Europe & Central Asia", "Europe & Central Asia", "Europe & Central Asia",
    "Europe & Central Asia", "North America", "East Asia & Pacific",
    "East Asia & Pacific", "East Asia & Pacific", "East Asia & Pacific",
    "East Asia & Pacific"
  >>

countries_income_group ==
  <<
    "High income", "High income", "High income", "High income", "High income",
    "Upper middle income", "Lower middle income", "Upper middle income",
    "Upper middle income", "Lower middle income", "Lower middle income", "Low income",
    "Upper middle income", "Upper middle income", "High income", "High income",
    "High income", "High income", "Upper middle income", "Upper middle income",
    "Upper middle income", "Upper middle income", "Lower middle income",
    "Lower middle income", "Lower middle income", "Lower middle income",
    "Lower middle income", "Lower middle income", "Low income", "Low income",
    "High income", "High income", "High income", "High income", "High income",
    "High income", "High income", "High income", "High income", "High income",
    "High income", "High income", "High income", "High income", "High income",
    "High income", "High income", "Upper middle income"
  >>

\* pd.DataFrame(countries_data) with the added population_2023 column.
countries_data ==
  [i \in 1 .. Len(countries_country_code) |->
     [country_code    |-> countries_country_code[i],
      country_name    |-> countries_country_name[i],
      region          |-> countries_region[i],
      income_group    |-> countries_income_group[i],
      population_2023 |-> None]]

IncomeGroups == {"High income", "Upper middle income", "Lower middle income", "Low income"}

Regions ==
  {"Latin America & Caribbean", "Sub-Saharan Africa", "Middle East & North Africa",
   "South Asia", "East Asia & Pacific", "Europe & Central Asia", "North America"}

\* range(2015, 2023): a series that stops one year early.
gdp_years_short == [j \in 1 .. 8 |-> 2014 + j]

\* range(2015, 2024)  (load_gdp_data)
gdp_years == [j \in 1 .. 9 |-> 2014 + j]

\* years = [2015, 2017, 2019, 2021, 2023]  (load_inequality_data)
inequality_years == <<2015, 2017, 2019, 2021, 2023>>

\* years = [2015, 2017, 2019, 2021, 2023]  (load_poverty_data)
poverty_years == <<2015, 2017, 2019, 2021, 2023>>

\* range(2015, 2024)  (load_trade_education)
trade_years == [j \in 1 .. 9 |-> 2014 + j]


(***************************************************************************)
(* GDP generator (load_gdp_data).  A record's rounded columns hold their   *)
(* roundings; resolve_frame below turns them into the stored numbers.      *)
(***************************************************************************)
\* Base GDP per capita range by income group, tenths of a dollar.
gdp_ranges(income_group) ==
  CASE income_group = "High income"         -> <<400000, 800000>>
    [] income_group = "Upper middle income" -> <<80000, 200000>>
    [] income_group = "Lower middle income" -> <<20000, 80000>>
    [] income_group = "Low income"          -> <<5000, 20000>>

gdp_base(income_group, u) ==
  random_uniform(gdp_ranges(income_group)[1], gdp_ranges(income_group)[2], u)

\* The growth rate sampled first in every iteration, by income level.
group_growth(income_group, u) ==
  IF income_group = "High income" THEN random_uniform(10, 30, u)
  ELSE IF income_group = "Upper middle income" THEN random_uniform(30, 70, u)
  ELSE IF income_group = "Lower middle income" THEN random_uniform(40, 80, u)
  ELSE random_uniform(30, 60, u)

\* The growth without the 2020 override.
gdp_growth_keep(income_group, year, uGrowth, uShock) ==
  group_growth(income_group, uGrowth)

\* The growth a year's record is computed with: the 2020 draw replaces the other.
gdp_growth(income_group, year, uGrowth, uShock) ==
  IF year = 2020
  THEN random_uniform(-50, -20, uShock)
  ELSE group_growth(income_group, uGrowth)

\* One record of the inner loop.
gdp_row(country_code, income_group, base_gdp, year, uGrowth, uShock) ==
  LET growth == gdp_growth(income_group, year, uGrowth, uShock)
      years_since_base == year - 2015
  IN  [country_code               |-> country_code,
       year                       |-> year,
       gdp_per_capita_current_usd |-> compound_round2(base_gdp, growth, years_since_base),
       gdp_total_current_usd      |-> None,
       gdp_growth_annual_pct      |-> round2(growth)]

(***************************************************************************)
(* Inequality generator (load_inequality_data).                            *)
(***************************************************************************)
\* Base Gini range by region, tenths.
gini_ranges(region) ==
  CASE region = "Latin America & Caribbean"  -> <<450, 550>>
    [] region = "Sub-Saharan Africa"         -> <<400, 650>>
    [] region = "Middle East & North Africa" -> <<350, 420>>
    [] region = "South Asia"                 -> <<320, 380>>
    [] region = "East Asia & Pacific"        -> <<300, 450>>
    [] region = "Europe & Central Asia"      -> <<250, 380>>
    [] region = "North America"              -> <<380, 420>>

gini_base(region, u) == random_uniform(gini_ranges(region)[1], gini_ranges(region)[2], u)

\* The clamp written for a Gini index on the 0..1 scale: max(0.2, min(0.7, gini)).
gini_clamp_fraction(gini) == Max(2 * UGrid, Min(7 * UGrid, gini))

\* gini = max(20, min(70, gini))
gini_clamp(gini) == Max(20 * Unit, Min(70 * Unit, gini))

lowest_20_of(u) == random_uniform(40, 90, u)

highest_20_of(u) == random_uniform(400, 550, u)

\* The ratio computed from the shares rounded to two decimals (the lower neighbour
\* at a tie), not from the shares as sampled.
palma_from_stored(lowest_20, highest_20) ==
  RoundDiv(100 * round2(highest_20).value, 2 * round2(lowest_20).value,
           <<lowest_20, highest_20, -1>>)

\* palma = round(highest_20 / (lowest_20 * 2), 2), from the unrounded shares.
palma_of(lowest_20, highest_20) ==
  RoundDiv(100 * highest_20, lowest_20 * 2, <<lowest_20, highest_20, -1>>)

inequality_row(country_code, base_gini, year, uGini, uLow, uHigh) ==
  LET gini       == gini_clamp(base_gini + random_uniform(-30, 30, uGini))
      lowest_20  == lowest_20_of(uLow)
      highest_20 == highest_20_of(uHigh)
      palma      == palma_of(lowest_20, highest_20)
  IN  [country_code               |-> country_code,
       year                       |-> year,
       gini_coefficient           |-> round2(gini),
       income_share_lowest_20pct  |-> round2(lowest_20),
       income_share_highest_20pct |-> round2(highest_20),
       palma_ratio                |-> palma]

(***************************************************************************)
(* Poverty generator (load_poverty_data).                                  *)
(***************************************************************************)
\* The filter left out: every country gets poverty records.
has_poverty_data_all(income_group) == TRUE

\* if income_group in ['Low income', 'Lower middle income', 'Upper middle income']
has_poverty_data(income_group) ==
  income_group \in {"Low income", "Lower middle income", "Upper middle income"}

\* The three base rates of a country, by income level, from three draws.
poverty_bases(income_group, u215, u365, u685) ==
  IF income_group = "Low income"
  THEN [base_215 |-> random_uniform(400, 700, u215),
        base_365 |-> random_uniform(600, 850, u365),
        base_685 |-> random_uniform(750, 950, u685)]
  ELSE IF income_group = "Lower middle income"
  THEN [base_215 |-> random_uniform(100, 400, u215),
        base_365 |-> random_uniform(250, 600, u365),
        base_685 |-> random_uniform(500, 800, u685)]
  ELSE [base_215 |-> random_uniform(10, 150, u215),
        base_365 |-> random_uniform(50, 300, u365),
        base_685 |-> random_uniform(150, 500, u685)]

\* The rate without the declining trend (reduction_factor = 1).
reduced_flat(base, year) == RoundDiv(100 * base * 800, 800 * Unit, <<base, year, -2>>)

\* round(base * reduction_factor, 2) with reduction_factor = 1 - ((year - 2015) / 8) * 0.15,
\* that is (800 - 15 * (year - 2015)) / 800.
reduced_round2(base, year) ==
  RoundDiv(100 * base * (800 - 15 * (year - 2015)), 800 * Unit, <<base, year, -2>>)

poverty_row(country_code, bases, year) ==
  [country_code              |-> country_code,
   year                      |-> year,
   poverty_headcount_215_pct |-> reduced_round2(bases.base_215, year),
   poverty_headcount_365_pct |-> reduced_round2(bases.base_365, year),
   poverty_headcount_685_pct |-> reduced_round2(bases.base_685, year),
   poverty_gap               |-> None]

(***************************************************************************)
(* Trade and education generator (load_trade_education).                   *)
(***************************************************************************)
\* sec_enrollment, ter_enrollment, gov_edu_exp by income level, from three draws.
education_bases(income_group, uSec, uTer, uGov) ==
  IF income_group = "High income"
  THEN [sec |-> random_uniform(950, 1050, uSec),
        ter |-> random_uniform(600, 900, uTer),
        gov |-> random_uniform(40, 60, uGov)]
  ELSE IF income_group = "Upper middle income"
  THEN [sec |-> random_uniform(750, 950, uSec),
        ter |-> random_uniform(300, 600, uTer),
        gov |-> random_uniform(35, 55, uGov)]
  ELSE IF income_group = "Lower middle income"
  THEN [sec |-> random_uniform(500, 800, uSec),
        ter |-> random_uniform(150, 400, uTer),
        gov |-> random_uniform(30, 50, uGov)]
  ELSE [sec |-> random_uniform(300, 600, uSec),
        ter |-> random_uniform(50, 200, uTer),
        gov |-> random_uniform(20, 40, uGov)]

\* years_since_2015 * 0.5 is 5 * UGrid units per year, years_since_2015 * 0.3 is 3 * UGrid.
trade_row(country_code, base_trade, edu, year, uTrade, uGov) ==
  LET years_since_2015 == year - 2015
      sec_improvement  == edu.sec + years_since_2015 * (5 * UGrid)
      ter_improvement  == edu.ter + years_since_2015 * (3 * UGrid)
  IN  [country_code                         |-> country_code,
       year                                 |-> year,
       trade_pct_gdp                        |->
         round2(base_trade + random_uniform(-100, 100, uTrade)),
       secondary_enrollment_rate            |-> round2(Min(105 * Unit, sec_improvement)),
       tertiary_enrollment_rate             |-> round2(ter_improvement),
       government_expenditure_education_pct |->
         round2(edu.gov + random_uniform(-5, 5, uGov))]

(***************************************************************************)
(* Rounded columns.                                                        *)
(***************************************************************************)
RoundedColumns ==
  {"gdp_per_capita_current_usd", "gdp_growth_annual_pct",
   "gini_coefficient", "income_share_lowest_20pct", "income_share_highest_20pct",
   "palma_ratio",
   "poverty_headcount_215_pct", "poverty_headcount_365_pct", "poverty_headcount_685_pct",
   "trade_pct_gdp", "secondary_enrollment_rate", "tertiary_enrollment_rate",
   "government_expenditure_education_pct"}

\* The record as stored: every rounded column at its outcome.
resolve_row(row, ups) ==
  [f \in DOMAIN row |-> IF f \in RoundedColumns THEN resolved(row[f], ups) ELSE row[f]]

\* pd.DataFrame(data): the frame of the stored records.
resolve_frame(rows, ups) == [i \in 1 .. Len(rows) |-> resolve_row(rows[i], ups)]

\* The operand tuples of the roundings of rows that fall on an exact tie.
tie_keys(rows) ==
  UNION {{rows[i][f].key : f \in {g \in RoundedColumns \cap DOMAIN rows[i] : rows[i][g].tie}} :
           i \in 1 .. Len(rows)}

(***************************************************************************)
(* The random generator.  The program never seeds it, and its draws are    *)
(* independent: a draw is any point of the grid, whatever was drawn        *)
(* before.  A stream d is the sequence of the draws the generator gives,   *)
(* in the order of the calls; the k-th draw after the first o:             *)
(***************************************************************************)
draw(d, o, k) == d[o + k + 1]

(***************************************************************************)
(* The per-country blocks of the four generators, drawing from the stream  *)
(* in the order the code draws, and the loops over the catalog.            *)
(***************************************************************************)
\* Base draw, then per year the income-level growth draw; 2020 draws once more (the
\* draw after the year's own, which gdp_row reads for 2020 only).
gdp_country(country, d, o) ==
  LET base_gdp == gdp_base(country.income_group, draw(d, o, 0))
  IN  [j \in 1 .. Len(gdp_years) |->
         gdp_row(country.country_code, country.income_group, base_gdp, gdp_years[j],
                 draw(d, o, j + (IF gdp_years[j] > 2020 THEN 1 ELSE 0)),
                 draw(d, o, j + 1))]

\* The number of draws one pass of the outer loop makes.
gdp_draws == 11

\* for idx, country in countries.iterrows(): the records of all countries in order,
\* drawing from the stream d; country c starts gdp_draws * (c - 1) draws on.
gdp_loop(cs, d) ==
  [i \in 1 .. (Len(cs) * Len(gdp_years)) |->
     LET c == (i - 1) \div Len(gdp_years) + 1
         j == ((i - 1) % Len(gdp_years)) + 1
     IN  gdp_country(cs[c], d, gdp_draws * (c - 1))[j]]

\* Base Gini draw, then three draws per survey year.
inequality_country(country, d, o) ==
  LET base_gini == gini_base(country.region, draw(d, o, 0))
  IN  [j \in 1 .. Len(inequality_years) |->
         inequality_row(country.country_code, base_gini, inequality_years[j],
                        draw(d, o, 3 * j - 2), draw(d, o, 3 * j - 1), draw(d, o, 3 * j))]

inequality_draws == 16

inequality_loop(cs, d) ==
  [i \in 1 .. (Len(cs) * Len(inequality_years)) |->
     LET c == (i - 1) \div Len(inequality_years) + 1
         j == ((i - 1) % Len(inequality_years)) + 1
     IN  inequality_country(cs[c], d, inequality_draws * (c - 1))[j]]

\* One pass of the outer loop: the records of one country from its three draws, none
\* (and no draw) unless its income group has poverty data.
poverty_country(country, u215, u365, u685) ==
  IF has_poverty_data(country.income_group)
  THEN LET bases == poverty_bases(country.income_group, u215, u365, u685)
       IN  [j \in 1 .. Len(poverty_years) |->
              poverty_row(country.country_code, bases, poverty_years[j])]
  ELSE <<>>

\* The countries the outer loop generates records for, in order.
poverty_countries(cs) == SelectSeq(cs, LAMBDA c : has_poverty_data(c.income_group))

poverty_draws == 3

poverty_loop(cs, d) ==
  LET ps == poverty_countries(cs)
  IN  [i \in 1 .. (Len(ps) * Len(poverty_years)) |->
         LET c  == (i - 1) \div Len(poverty_years) + 1
             j  == ((i - 1) % Len(poverty_years)) + 1
             o  == poverty_draws * (c - 1)
         IN  poverty_country(ps[c], draw(d, o, 0), draw(d, o, 1), draw(d, o, 2))[j]]

\* Four base draws, then two noise draws per year.
trade_country(country, d, o) ==
  LET base_trade == random_uniform(400, 1500, draw(d, o, 0))
      edu == education_bases(country.income_group,
                             draw(d, o, 1), draw(d, o, 2), draw(d, o, 3))
  IN  [j \in 1 .. Len(trade_years) |->
         trade_row(country.country_code, base_trade, edu, trade_years[j],
                   draw(d, o, 2 * j + 2), draw(d, o, 2 * j + 3))]

trade_draws == 22

trade_loop(cs, d) ==
  [i \in 1 .. (Len(cs) * Len(trade_years)) |->
     LET c == (i - 1) \div Len(trade_years) + 1
         j == ((i - 1) % Len(trade_years)) + 1
     IN  trade_country(cs[c], d, trade_draws * (c - 1))[j]]

(***************************************************************************)
(* The database and main().                                                *)
(***************************************************************************)
TableNames ==
  {"country_metadata", "gdp_data", "inequality_metrics", "poverty_indicators",
   "trade_education"}

\* The steps of the try block, in order.
Steps ==
  <<"schema", "country_metadata", "gdp_data", "inequality_metrics",
    "poverty_indicators", "trade_education", "summary">>

StepIndex(step) == CHOOSE i \in 1 .. Len(Steps) : Steps[i] = step

\* Where control goes when a step of the try block completes.
next_step(step) ==
  IF StepIndex(step) < Len(Steps) THEN Steps[StepIndex(step) + 1] ELSE "finally"

\* Where control goes when a step of the try block raises: through the except clause
\* when it matches, and in every case to the finally clause.
raise_to(step) == "finally"

\* What a step may raise: an Exception (OSError on reading the schema, sqlite3 and
\* pandas database errors, UnicodeEncodeError of a print) or an exception outside that
\* class (KeyboardInterrupt, SystemExit).
Raisable == {"Exception", "BaseException"}

\* An except clause that catches nothing.
caught_never(exc) == FALSE

\* except Exception as e:
caught(exc) == exc = "Exception"

\* to_sql(..., if_exists='append'): the rows of df follow the old ones.
to_sql_append(old, df) == old \o <<df>>

\* df.to_sql(name, conn, if_exists='replace', index=False): the table holds df alone.
to_sql(old, df) == <<df>>

\* conn.executescript(f.read()) of schema.sql.  The script is not part of the source:
\* it is a DDL script, which inserts no row, and a table it defines keeps the rows it
\* had or, dropped and created anew, has none.  ts is the set of the tables the script
\* leaves without rows.
apply_schema(db, ts) == [t \in TableNames |-> IF t \in ts THEN <<>> ELSE db[t]]

\* A DataFrame is held by what determines it: the call that built it (the stage and
\* the run), and for the frame of a load stage the frame cs of the countries its loop
\* went over.  Its records are those its loop generates from the draws the generator
\* gave during the call; frame_rows gives them for a stream d of those draws.
NoFrame == [table |-> "none"]

\* pd.DataFrame(countries_data), built by the call of run r.
countries_frame(r) == [table |-> "country_metadata", call |-> r]

\* pd.DataFrame(data), built by the call of stage in run r.
DataFrame(stage, cs, r) == [table |-> stage, countries |-> cs, call |-> r]

\* countries.iterrows()
iterrows(cs) == IF cs.table = "country_metadata" THEN countries_data ELSE <<>>

\* The records the loop of a load stage generates over the country rows from the
\* stream d.
loop_of(stage, rows, d) ==
  CASE stage = "gdp_data"           -> gdp_loop(rows, d)
    [] stage = "inequality_metrics" -> inequality_loop(rows, d)
    [] stage = "poverty_indicators" -> poverty_loop(rows, d)
    [] stage = "trade_education"    -> trade_loop(rows, d)

\* The number of draws the loop of a load stage makes over the country rows.
draws_of(stage, rows) ==
  CASE stage = "gdp_data"           -> gdp_draws * Len(rows)
    [] stage = "inequality_metrics" -> inequality_draws * Len(rows)
    [] stage = "poverty_indicators" -> poverty_draws * Len(poverty_countries(rows))
    [] stage = "trade_education"    -> trade_draws * Len(rows)
    [] OTHER                        -> 0

\* The records of a frame, its loop having drawn the stream d.  Roundings are kept,
\* a tie left open.
frame_rows(df, d) ==
  IF df.table = "country_metadata" THEN countries_data
  ELSE loop_of(df.table, iterrows(df.countries), d)

\* The stream of n draws that are all u.
constant_stream(u, n) == [k \in 1 .. n |-> u]

\* The (country_code, year) columns of the records of a load stage's loop over the
\* country rows.  No branch of a loop reads a draw: the columns are the same for
\* every stream, and they are taken from the stream of the lowest draws.
loop_keys(stage, rows) ==
  LET data == loop_of(stage, rows, constant_stream(0, draws_of(stage, rows)))
  IN  [i \in 1 .. Len(data) |-> <<data[i].country_code, data[i].year>>]

\* The key columns of the loops over the catalog, computed once.
catalog_keys ==
  [stage \in TableNames \ {"country_metadata"} |-> loop_keys(stage, countries_data)]

\* The key column(s) of the records of a frame: country_code for the catalog,
\* (country_code, year) for a generated frame.
frame_keys(df) ==
  IF df.table = "country_metadata"
  THEN [i \in 1 .. Len(countries_data) |-> <<countries_data[i].country_code>>]
  ELSE IF df.countries.table = "country_metadata"
  THEN catalog_keys[df.table]
  ELSE loop_keys(df.table, iterrows(df.countries))

NoRows == [t \in TableNames |-> <<>>]

NoSample == [kind |-> "none"]

\* Before the first run: no database file yet, nothing generated.
Init ==
  /\ pc = "idle"
  /\ conn = "none"
  /\ closes = 0
  /\ escaped = FALSE
  /\ interrupted = FALSE
  /\ countries = NoFrame
  /\ tables = NoRows
  /\ run = 0
  /\ before = NoRows
  /\ wrote = NoRows
  /\ ran = {}
  /\ failedAt = "none"
  /\ raised = "none"
  /\ streak = 0
  /\ first_counts = [t \in TableNames |-> 0]
  /\ sample = NoSample

\* main() is entered and sqlite3.connect(DB_PATH) succeeds.
Connect ==
  /\ pc \in {"idle", "done"}
  /\ run < MaxRuns
  /\ pc' = "schema"
  /\ conn' = "open"
  /\ closes' = 0
  /\ escaped' = FALSE
  /\ interrupted' = FALSE
  /\ countries' = NoFrame
  /\ run' = run + 1
  /\ before' = tables
  /\ wrote' = NoRows
  /\ ran' = {}
  /\ failedAt' = "none"
  /\ raised' = "none"
  /\ UNCHANGED <<tables, streak, first_counts, sample>>

\* main() is entered and raises before the try block: in a print of the banner or in
\* sqlite3.connect.  No except clause is around: whatever was raised leaves main(),
\* and no connection exists.
ConnectFails ==
  /\ pc \in {"idle", "done"}
  /\ run < MaxRuns
  /\ pc' = "done"
  /\ conn' = "none"
  /\ closes' = 0
  /\ escaped' = TRUE
  /\ interrupted' = FALSE
  /\ countries' = NoFrame
  /\ run' = run + 1
  /\ before' = tables
  /\ wrote' = NoRows
  /\ ran' = {}
  /\ failedAt' = "connect"
  /\ raised' \in Raisable
  /\ streak' = 0
  /\ UNCHANGED <<tables, first_counts, sample>>

\* The step at pc completes.
Completes ==
  /\ ran' = ran \cup {pc}
  /\ pc' = next_step(pc)
  /\ UNCHANGED <<conn, closes, escaped, interrupted, run, before, failedAt, raised, streak,
                 first_counts, sample>>

\* The step at pc raises exc.  An Exception enters the except clause, which prints the
\* error and the traceback; these prints can raise in their turn (the message holds
\* U+2717, which an ASCII stdout cannot encode), and then the exception of the except
\* clause leaves main().  Any other exception passes the except clause by.
Raises(exc, handler_raises) ==
  /\ failedAt' = pc
  /\ raised' = IF caught(exc) /\ handler_raises THEN "in except" ELSE exc
  /\ escaped' = (~caught(exc) \/ handler_raises)
  /\ ran' = ran \cup {pc}
  /\ pc' = raise_to(pc)
  /\ UNCHANGED <<conn, closes, interrupted, run, before, streak, first_counts, sample>>

\* with open('schema.sql') as f: conn.executescript(f.read()); print
ExecuteSchema ==
  /\ pc = "schema"
  /\ \E ts \in SUBSET TableNames : tables' = apply_schema(tables, ts)
  /\ Completes
  /\ UNCHANGED <<countries, wrote>>

\* The key columns of the rows of a table: those of the frames stored in it.
RECURSIVE table_keys(_)
table_keys(table) ==
  IF table = <<>> THEN <<>> ELSE frame_keys(Head(table)) \o table_keys(Tail(table))

\* SELECT COUNT(*) FROM table
count_rows(table) == Len(table_keys(table))

\* A load stage that has built the frame df stores it: its table is replaced by df.
\* The print that follows to_sql ends the stage or raises.
Stored(df) ==
  /\ tables' = [tables EXCEPT ![pc] = to_sql(@, df)]
  /\ wrote' = [wrote EXCEPT ![pc] = <<df>>]
  /\ \/ Completes
     \/ \E exc \in Raisable, handler_raises \in BOOLEAN : Raises(exc, handler_raises)

load_country_metadata ==
  /\ pc = "country_metadata"
  /\ Stored(countries_frame(run))
  /\ countries' = IF failedAt' = "none" THEN countries_frame(run) ELSE countries

\* The frame of each of the four generating stages is built by its loop over the
\* countries, from the draws the generator gives it.
load_gdp_data ==
  /\ pc = "gdp_data"
  /\ Stored(DataFrame(pc, countries, run))
  /\ UNCHANGED countries

load_inequality_data ==
  /\ pc = "inequality_metrics"
  /\ Stored(DataFrame(pc, countries, run))
  /\ UNCHANGED countries

load_poverty_data ==
  /\ pc = "poverty_indicators"
  /\ Stored(DataFrame(pc, countries, run))
  /\ UNCHANGED countries

load_trade_education ==
  /\ pc = "trade_education"
  /\ Stored(DataFrame(pc, countries, run))
  /\ UNCHANGED countries

\* The row-count summary: one SELECT COUNT(*) per table, printed.
Summary ==
  /\ pc = "summary"
  /\ Completes
  /\ UNCHANGED <<countries, tables, wrote>>

\* The database a step that raises before it completes may leave behind.  A load
\* stage fails while it builds its frame, or inside to_sql with the frame built,
\* before the old table was dropped or after it was dropped and the insert rolled
\* back.  The schema step fails on opening the file, or in the script with some of its
\* statements executed, or at the print after the whole script.
left_by_failure(step) ==
  IF step \in TableNames
  THEN {tables, [tables EXCEPT ![step] = <<>>]}
  ELSE IF step = "schema"
  THEN {apply_schema(tables, ts) : ts \in SUBSET TableNames}
  ELSE {tables}

\* A step of the try block raises before it completes.
Raise ==
  /\ pc \in {Steps[i] : i \in 1 .. Len(Steps)}
  /\ tables' \in left_by_failure(pc)
  /\ \E exc \in Raisable, handler_raises \in BOOLEAN : Raises(exc, handler_raises)
  /\ UNCHANGED <<countries, wrote>>

\* finally: conn.close().  The call closes the connection; an interrupt delivered
\* while it runs (KeyboardInterrupt) is raised as it returns and leaves main() from
\* the finally clause.  Otherwise main() returns, or the exception that passed the
\* except clause by goes on.  The process, the frame of the countries with it, ends.
Finally ==
  /\ pc = "finally"
  /\ conn' = "closed"
  /\ closes' = closes + 1
  /\ pc' = "done"
  /\ interrupted' \in BOOLEAN
  /\ escaped' = (escaped \/ interrupted')
  /\ countries' = NoFrame
  /\ streak' = IF failedAt = "none" THEN streak + 1 ELSE 0
  /\ first_counts' = IF failedAt = "none" /\ streak = 0
                     THEN [t \in TableNames |-> count_rows(tables[t])]
                     ELSE first_counts
  /\ UNCHANGED <<tables, run, before, wrote, ran, failedAt, raised, sample>>

Next ==
  \/ Connect
  \/ ConnectFails
  \/ ExecuteSchema
  \/ load_country_metadata
  \/ load_gdp_data
  \/ load_inequality_data
  \/ load_poverty_data
  \/ load_trade_education
  \/ Summary
  \/ Raise
  \/ Finally

Spec == Init /\ [][Next]_vars

(***************************************************************************)
(* The generators on their own: every combination of a catalog country of  *)
(* each kind with every draw of the grid and every way its ties can fall,  *)
(* each generated once from the initial state.                             *)
(***************************************************************************)
\* The first catalog country of an income group, of a region.
FirstOfGroup(g) ==
  countries_data[CHOOSE i \in 1 .. Len(countries_data) :
                   /\ countries_data[i].income_group = g
                   /\ \A j \in 1 .. (i - 1) : countries_data[j].income_group # g]

FirstOfRegion(r) ==
  countries_data[CHOOSE i \in 1 .. Len(countries_data) :
                   /\ countries_data[i].region = r
                   /\ \A j \in 1 .. (i - 1) : countries_data[j].region # r]

PipelineIdle ==
  UNCHANGED <<pc, conn, closes, escaped, interrupted, countries, tables, run, before, wrote, ran,
              failedAt, raised, streak, first_counts>>

\* One iteration of load_gdp_data's inner loop.
SampleGdp ==
  /\ sample = NoSample
  /\ \E g \in IncomeGroups, uBase \in Draws, j \in 1 .. Len(gdp_years),
        uGrowth \in Draws, uShock \in Draws :
       LET c == FirstOfGroup(g)
           base_gdp == gdp_base(g, uBase)
           row == gdp_row(c.country_code, g, base_gdp, gdp_years[j], uGrowth, uShock)
       IN  \E ups \in SUBSET tie_keys(<<row>>) :
             sample' = [kind |-> "gdp", income_group |-> g, base_gdp |-> base_gdp,
                        year |-> gdp_years[j], uGrowth |-> uGrowth, uShock |-> uShock,
                        row |-> resolve_row(row, ups)]
  /\ PipelineIdle

\* One iteration of load_inequality_data's inner loop.
SampleInequality ==
  /\ sample = NoSample
  /\ \E r \in Regions, uBase \in Draws, j \in 1 .. Len(inequality_years),
        uGini \in Draws, uLow \in Draws, uHigh \in Draws :
       LET c == FirstOfRegion(r)
           base_gini == gini_base(r, uBase)
           row == inequality_row(c.country_code, base_gini, inequality_years[j],
                                 uGini, uLow, uHigh)
       IN  \E ups \in SUBSET tie_keys(<<row>>) :
             sample' = [kind |-> "inequality", region |-> r, base_gini |-> base_gini,
                        lowest_20 |-> lowest_20_of(uLow),
                        highest_20 |-> highest_20_of(uHigh),
                        row |-> resolve_row(row, ups)]
  /\ PipelineIdle

\* One iteration of load_poverty_data's outer loop: all records of one country.
SamplePoverty ==
  /\ sample = NoSample
  /\ \E g \in IncomeGroups, u215 \in Draws, u365 \in Draws, u685 \in Draws :
       LET c == FirstOfGroup(g)
           rows == poverty_country(c, u215, u365, u685)
       IN  \E ups \in SUBSET tie_keys(rows) :
             sample' = [kind |-> "poverty", income_group |-> g,
                        u215 |-> u215, u365 |-> u365, u685 |-> u685,
                        rows |-> resolve_frame(rows, ups)]
  /\ PipelineIdle

NextGen ==
  \/ SampleGdp
  \/ SampleInequality
  \/ SamplePoverty

SpecGen == Init /\ [][NextGen]_vars

(***************************************************************************)
(* Properties.                                                             *)
(***************************************************************************)
\* The set of the keys of a sequence of keys.
Keys(keys) == {keys[i] : i \in 1 .. Len(keys)}

CatalogCodes == {countries_country_code[i] : i \in 1 .. Len(countries_country_code)}

NonHighIncome ==
  {i \in 1 .. Len(countries_income_group) : countries_income_group[i] # "High income"}

SurveyYears == {2015, 2017, 2019, 2021, 2023}

RunFinished == pc = "done" /\ conn # "none"

RunSucceeded == RunFinished /\ failedAt = "none"

RunFailed == RunFinished /\ failedAt # "none"

\* The load stages (tables) before and after the step that failed.
TablesBefore(step) == {t \in TableNames : StepIndex(t) < StepIndex(step)}

TablesAfter(step) == {t \in TableNames : StepIndex(t) > StepIndex(step)}

\* The numbers a rounding may give: both neighbours at an exact tie.
Outcomes(x) == IF x.tie THEN {x.value, x.value + 1} ELSE {x.value}

\* The key columns of the rows table t holds.
Rows(t) == table_keys(tables[t])

\* C1: after any number n >= 1 of successful runs in a row against the same
\* database, each of the five tables has the row count it had after the first
\* of those runs: a rerun replaces, it does not append.
C1_RerunKeepsRowCounts ==
  (RunSucceeded /\ streak >= 1) =>
    \A t \in TableNames : count_rows(tables[t]) = first_counts[t]

\* A second successful run in a row, over the database the first one filled: the GDP
\* table holds the frame this run generated in place of the first run's.
C1_Witness ==
  /\ RunSucceeded
  /\ streak >= 2
  /\ count_rows(before["gdp_data"]) > 0
  /\ tables["gdp_data"] = wrote["gdp_data"]
  /\ tables["gdp_data"] # before["gdp_data"]

\* C2: after a successful run gdp_data holds 48*9 = 432 rows, one per country and
\* year 2015..2023, inequality_metrics 48*5 = 240 rows, one per country and survey
\* year, poverty_indicators five rows per non-high-income country, trade_education
\* 432 rows; in each of these tables the pair (country_code, year) is unique.
C2_RowCounts ==
  RunSucceeded =>
    LET gdp        == Rows("gdp_data")
        inequality == Rows("inequality_metrics")
        poverty    == Rows("poverty_indicators")
        trade      == Rows("trade_education")
    IN  /\ Len(countries_data) = 48
        /\ Len(gdp) = 48 * 9
        /\ Len(gdp) = 432
        /\ Keys(gdp) = CatalogCodes \X (2015 .. 2023)
        /\ Cardinality(Keys(gdp)) = Len(gdp)
        /\ Len(inequality) = 48 * 5
        /\ Len(inequality) = 240
        /\ Keys(inequality) = CatalogCodes \X SurveyYears
        /\ Cardinality(Keys(inequality)) = Len(inequality)
        /\ Len(poverty) = Cardinality(NonHighIncome) * 5
        /\ Keys(poverty) \subseteq CatalogCodes \X SurveyYears
        /\ Cardinality(Keys(poverty)) = Len(poverty)
        /\ Len(trade) = 432
        /\ Keys(trade) = CatalogCodes \X (2015 .. 2023)
        /\ Cardinality(Keys(trade)) = Len(trade)

\* A successful run has filled the four generated tables.
C2_Witness ==
  /\ RunSucceeded
  /\ Len(Rows("gdp_data")) = 432
  /\ Len(Rows("poverty_indicators")) = 110

\* C3 as stated: when a run of main() that opened its connection has ended, whether it
\* completed or a step of the try block failed, the connection has been closed
\* exactly once and no exception has left main(); it is not closed before.
C3_ClosedOnceNothingEscapes ==
  /\ RunFinished => (conn = "closed" /\ closes = 1 /\ ~escaped)
  /\ pc \in {Steps[i] : i \in 1 .. Len(Steps)} \cup {"finally"} =>
       (conn = "open" /\ closes = 0)

\* C3 as amended: when a run of main() that opened its connection has ended, whether
\* it completed or a step of the try block failed, the connection has been closed
\* exactly once, and not before the finally clause; a failure raised as an Exception
\* is caught, and does not leave main() unless the except clause or the finally
\* clause raises; an exception leaves main() exactly when the step raised one that is
\* not an Exception, or the except clause raised while it reported the failure, or an
\* exception was raised in the finally clause as conn.close() returned.
C3_ClosedOnceExceptionCaught ==
  /\ RunFinished =>
       /\ conn = "closed"
       /\ closes = 1
       /\ (raised \in {"none", "Exception"} /\ ~interrupted) => ~escaped
       /\ (raised \in {"BaseException", "in except"} \/ interrupted) => escaped
       /\ failedAt = "none" <=> raised = "none"
  /\ pc \in {Steps[i] : i \in 1 .. Len(Steps)} \cup {"finally"} =>
       (conn = "open" /\ closes = 0)

\* A run interrupted in a load stage has ended with its connection closed and the
\* interrupt leaving main().
C3_Witness ==
  /\ RunFinished
  /\ failedAt = "inequality_metrics"
  /\ raised = "BaseException"
  /\ ~interrupted
  /\ escaped
  /\ conn = "closed"
  /\ closes = 1

\* After a failure at step k every table of a stage before k holds the frame that
\* stage stored in this run, and no step after k was entered.
FailureEndsRun ==
  RunFailed =>
    /\ \A t \in TablesBefore(failedAt) : t \in ran /\ tables[t] = wrote[t]
    /\ \A i \in 1 .. Len(Steps) : i > StepIndex(failedAt) => Steps[i] \notin ran

\* C5: for every country with poverty records and every two of its records with
\* years y1 < y2, each of the three stored headcount rates is strictly smaller in
\* the record of y2.
C5_RatesStrictlyDecrease ==
  sample.kind = "poverty" =>
    \A i \in 1 .. Len(sample.rows), j \in 1 .. Len(sample.rows) :
      sample.rows[i].year < sample.rows[j].year =>
        /\ sample.rows[j].poverty_headcount_215_pct < sample.rows[i].poverty_headcount_215_pct
        /\ sample.rows[j].poverty_headcount_365_pct < sample.rows[i].poverty_headcount_365_pct
        /\ sample.rows[j].poverty_headcount_685_pct < sample.rows[i].poverty_headcount_685_pct

\* The smallest base rate there is (1.00, upper middle income): 1.00, 0.96, 0.93 (the
\* tie 0.925 falling upward), ..., 0.85.
C5_Witness ==
  /\ sample.kind = "poverty"
  /\ sample.income_group = "Upper middle income"
  /\ Len(sample.rows) = 5
  /\ sample.rows[1].poverty_headcount_215_pct = 100
  /\ sample.rows[2].poverty_headcount_215_pct = 96
  /\ sample.rows[3].poverty_headcount_215_pct = 93
  /\ sample.rows[5].poverty_headcount_215_pct = 85

\* C6: in every poverty record the headcount rates do not decrease across the
\* poverty lines: the rate at 2.15 is at most the rate at 3.65, which is at most
\* the rate at 6.85.
C6_RatesOrderedAcrossLines ==
  sample.kind = "poverty" =>
    \A i \in 1 .. Len(sample.rows) :
      /\ sample.rows[i].poverty_headcount_215_pct <= sample.rows[i].poverty_headcount_365_pct
      /\ sample.rows[i].poverty_headcount_365_pct <= sample.rows[i].poverty_headcount_685_pct

\* C7: once load_poverty_data has stored its frame, the poverty table holds a record
\* for a (country, year) pair exactly when the country's income group is Low, Lower
\* middle or Upper middle income and the year is a survey year; it holds none for a
\* High income country.
C7_PovertyRecordsIffNotHighIncome ==
  pc = next_step("poverty_indicators") =>
    LET keys == Keys(Rows("poverty_indicators"))
    IN  /\ keys =
             {<<countries_country_code[i], y>> :
                i \in {k \in 1 .. Len(countries_country_code) :
                         countries_income_group[k] \in
                           {"Low income", "Lower middle income", "Upper middle income"}},
                y \in SurveyYears}
        /\ \A i \in 1 .. Len(countries_country_code) :
             countries_income_group[i] = "High income" =>
               \A y \in 2015 .. 2023 : <<countries_country_code[i], y>> \notin keys

\* The poverty stage has written its 22 * 5 records.
C7_Witness ==
  /\ pc = "trade_education"
  /\ Len(Rows("poverty_indicators")) = 110
  /\ tables["poverty_indicators"] = wrote["poverty_indicators"]

\* C8 as stated: the stored palma_ratio is round(high20 / (2 * low20), 2) of the two
\* shares stored in the same record.
C8_PalmaOfStoredShares ==
  sample.kind = "inequality" =>
    sample.row.palma_ratio \in
      Outcomes(RoundDiv(100 * sample.row.income_share_highest_20pct,
                        2 * sample.row.income_share_lowest_20pct, <<>>))

\* C8 as amended: the stored palma_ratio is round(highest_20 / (2 * lowest_20), 2) of
\* the two shares as sampled, the record stores those shares rounded to two decimals,
\* and the ratio recomputed from the stored shares is within 0.01 of the stored one.
C8_PalmaOfSampledShares ==
  sample.kind = "inequality" =>
    /\ sample.row.palma_ratio \in
         Outcomes(RoundDiv(100 * sample.highest_20, 2 * sample.lowest_20, <<>>))
    /\ sample.row.income_share_lowest_20pct \in
         Outcomes(RoundDiv(100 * sample.lowest_20, Unit, <<>>))
    /\ sample.row.income_share_highest_20pct \in
         Outcomes(RoundDiv(100 * sample.highest_20, Unit, <<>>))
    /\ \A stored \in Outcomes(RoundDiv(100 * sample.row.income_share_highest_20pct,
                                        2 * sample.row.income_share_lowest_20pct, <<>>)) :
         /\ sample.row.palma_ratio - stored <= 1
         /\ stored - sample.row.palma_ratio <= 1

\* Shares that rounding changes: 4.8333... stored as 4.83, 42.5 as 42.5; the ratio is
\* 4.40 from the samples.
C8_Witness ==
  /\ sample.kind = "inequality"
  /\ 6 * sample.lowest_20 = 29 * Unit
  /\ sample.row.income_share_lowest_20pct = 483
  /\ 2 * sample.highest_20 = 85 * Unit
  /\ sample.row.income_share_highest_20pct = 4250
  /\ sample.row.palma_ratio = 440

\* C9: for every income group the 2020 GDP record has a growth in [-5, -2] and a GDP
\* per capita of base * (1 + growth/100)^5 with that growth, whatever growth was drawn
\* for the income group; in every other year the growth lies in the group's range.
C9_ShockYear ==
  sample.kind = "gdp" =>
    LET shock == random_uniform(-50, -20, sample.uShock)
        range == CASE sample.income_group = "High income"         -> <<100, 300>>
                   [] sample.income_group = "Upper middle income" -> <<300, 700>>
                   [] sample.income_group = "Lower middle income" -> <<400, 800>>
                   [] sample.income_group = "Low income"          -> <<300, 600>>
    IN  /\ sample.year = 2020 =>
             /\ sample.row.gdp_growth_annual_pct >= -500
             /\ sample.row.gdp_growth_annual_pct <= -200
             /\ sample.row.gdp_growth_annual_pct \in Outcomes(round2(shock))
             /\ sample.row.gdp_per_capita_current_usd \in
                  Outcomes(compound_round2(sample.base_gdp, shock, 2020 - 2015))
             /\ sample.row.gdp_per_capita_current_usd < round2(sample.base_gdp).value
        /\ sample.year # 2020 =>
             /\ sample.row.gdp_growth_annual_pct >= range[1]
             /\ sample.row.gdp_growth_annual_pct <= range[2]

\* A lower-middle-income 2020 record at a -3.5 % shock, the group's draw at its top.
C9_Witness ==
  /\ sample.kind = "gdp"
  /\ sample.income_group = "Lower middle income"
  /\ sample.year = 2020
  /\ sample.uGrowth = UGrid
  /\ sample.row.gdp_growth_annual_pct = -350

\* C10: for every region, base value and perturbation the stored gini_coefficient
\* lies in [20, 70].
C10_GiniInBounds ==
  sample.kind = "inequality" =>
    /\ sample.row.gini_coefficient >= 2000
    /\ sample.row.gini_coefficient <= 7000

\* The largest Gini there is: Sub-Saharan Africa's top base 65 plus 3.
C10_Witness ==
  /\ sample.kind = "inequality"
  /\ sample.region = "Sub-Saharan Africa"
  /\ sample.base_gini = 65 * Unit
  /\ sample.row.gini_coefficient = 6800

====
